---------------------------- MODULE Spec2Model ----------------------------
(***************************************************************************)
(* ESP32 WiFi thermometer: the wake cycle run by setup() on every wake     *)
(* from deep sleep (src/src/main.cpp for the DS18B20-only firmware,        *)
(* src/unnamed/part_000 for the firmware with the USE_AHT20 switch).       *)
(*                                                                         *)
(* Temperatures and humidities are integers in units of 1/Scale = 1/16 of a *)
(* degree or of a percent: the resolution of the DS18B20, and values every *)
(* float holds exactly, so that String(x, 2) and String(x, 1) are the real *)
(* conversions of the values the firmware sees.                            *)
(***************************************************************************)
EXTENDS Integers, Sequences, FiniteSets, TLC

VARIABLES
    build,        \* which firmware: "ds18b20" (main.cpp), "ds18b20_3col" (part_000), "aht20" (part_000 built with USE_AHT20)
    bootCount,    \* RTC_DATA_ATTR int bootCount
    timeSynced,   \* RTC_DATA_ATTR bool timeSynced
    clockSet,     \* the system clock holds a wall-clock time: getLocalTime() succeeds (kept through deep sleep)
    dataFile,     \* /temperature_data.csv on flash: [exists, lines]
    logFile,      \* lines appended to /thermometer.log since this wake (the file is append-only and never read)
    mounted,      \* LittleFS is mounted in this wake
    wifi,         \* radio: "off", "idle" (on, not associated), "connected"
    sntp,         \* configTime() has started the SNTP client in this wake
    timerArmed,   \* esp_sleep_enable_timer_wakeup has been called
    pc,           \* position in setup()
    elapsed,      \* connectWiFi: millis() - startTime (0 outside the call)
    retries,      \* syncTime: retries (0 outside the call)
    raw,          \* what the sensor driver returned to the last read of this wake
    reading,      \* setup: the SensorReading / tempC local
    timestamp,    \* setup: the timestamp local
    connects,     \* connectWiFi() calls made in this wake
    trace,        \* what this wake has done so far, in order (calls, serial lines, LED blinks, POSTs)
    stores        \* history: the storeReading calls made since the flash was last blank, each with its arguments and whether its open succeeded

vars == <<build, bootCount, timeSynced, clockSet, dataFile, logFile, mounted, wifi,
          sntp, timerArmed, pc, elapsed, retries, raw, reading, timestamp, connects, trace,
          stores>>

-----------------------------------------------------------------------------
(* Bounds of the model *)

\* wake cycles explored with the full sensor and server input sets
MaxWakes == 2
\* wake cycles explored for termination and for failing log-file opens
MaxLiveWakes == 2
\* wake cycles explored for the growth of the data file
MaxStoreWakes == 3
\* wake cycles explored for the NTP re-sync cadence (two re-sync periods and one wake more)
MaxCadenceWakes == 41
\* connectWiFi() calls a caller makes in one wake (setup() itself makes one)
MaxConnectCalls == 3

-----------------------------------------------------------------------------
(* Program constants *)

\* fixed-point units per degree and per percent
Scale == 16
READING_INTERVAL_SEC == 60
WIFI_TIMEOUT_MS == 20000
NTP_SYNC_INTERVAL_BOOTS == 20
WIFI_POLL_MS == 500
NTP_MAX_RETRIES == 10
HTTP_OK == 200

\* float NAN: a value no sensor input takes
NAN == 0 - 99999999
isnan(x) == x = NAN

\* DallasTemperature's DEVICE_DISCONNECTED_C (-127 degrees)
DEVICE_DISCONNECTED_C == 0 - 127 * Scale

-----------------------------------------------------------------------------
(* Inputs from the environment *)

\* main.cpp; part_000 built without USE_AHT20 (the one-wire sensor, the CSV with
\* a third column that stays empty); part_000 built with USE_AHT20
Builds == {"ds18b20", "ds18b20_3col", "aht20"}
\* #ifdef USE_AHT20
UsesAHT20(b) == b = "aht20"
\* storeReading() of part_000 takes a humidity and writes a humidity_rh column
HumidityColumn(b) == b # "ds18b20"

\* DS18B20 conversions: the sentinel, and values around both ends of -55 .. 125
\* (-55.0625, -55, 22.5625, 22.625, 125, 125.0625)
RawTempsDS == {DEVICE_DISCONNECTED_C, 0 - 881, 0 - 880, 361, 362, 2000, 2001}
\* AHT20 events: temperatures around both ends of -40 .. 85, humidities around 0 .. 100
\* (-40.0625, -40, 85, 85.0625; -0.0625, 45.25, 100.0625)
RawTempsAHT == {0 - 641, 0 - 640, 1360, 1361}
RawHumsAHT == {0 - 1, 724, 1601}

DSEvents == {[ok |-> TRUE, t |-> t, h |-> NAN] : t \in RawTempsDS}
AHTEvents == {[ok |-> o, t |-> t, h |-> h] : o \in {TRUE}, t \in RawTempsAHT, h \in RawHumsAHT}
                \cup {[ok |-> FALSE, t |-> NAN, h |-> NAN]}

\* HTTPClient::POST results: HTTP statuses and negative transport errors
ResponseCodes == {200, 201, 0 - 1}

\* LittleFS.begin(true): mounted; mount failed, formatted and mounted; mount and format failed
MountOutcomes == {"mounted", "formatted", "failed"}

\* The environment a specification explores.  Env has every sensor answer and
\* every response code, and a log file that opens whenever the filesystem is
\* mounted.  LiveEnv lets every open of the log file fail or succeed, on one
\* valid and one invalid sensor answer, one accepted and one refused POST.
\* StoreEnv is Env with one valid sensor answer and one accepted POST.  The
\* cadence environment runs many wakes on few inputs: a flash that is blank at
\* every mount, one valid and one invalid sensor answer, one accepted and one
\* refused POST.
FewDSEvents == {e \in DSEvents : e.t \in {DEVICE_DISCONNECTED_C, 361}}
FewAHTEvents == {e \in AHTEvents : ~e.ok \/ (e.t = 1360 /\ e.h = 724)}
Env ==
    [maxWakes |-> MaxWakes, mounts |-> MountOutcomes, logOpens |-> {TRUE},
     ds |-> DSEvents, aht |-> AHTEvents, codes |-> ResponseCodes]
LiveEnv ==
    [maxWakes |-> MaxLiveWakes, mounts |-> MountOutcomes, logOpens |-> BOOLEAN,
     ds |-> FewDSEvents, aht |-> FewAHTEvents, codes |-> {200, 0 - 1}]
StoreEnv ==
    [maxWakes |-> MaxStoreWakes, mounts |-> MountOutcomes, logOpens |-> {TRUE},
     ds |-> {e \in DSEvents : e.t = 361}, aht |-> {e \in AHTEvents : e.ok /\ e.t = 1360 /\ e.h = 724},
     codes |-> {200}]
CadenceEnv ==
    [maxWakes |-> MaxCadenceWakes, mounts |-> {"formatted"}, logOpens |-> {TRUE},
     ds |-> FewDSEvents, aht |-> FewAHTEvents, codes |-> {200, 0 - 1}]

-----------------------------------------------------------------------------
(* Conversions *)

\* String(float, decimals) is dtostrf: it adds half a unit of the last decimal
\* to the magnitude in double arithmetic and cuts the digits after it.  Off a
\* tie that is rounding to nearest; on a tie (the value lies exactly between
\* two decimals) the half unit, which no double holds exactly, decides.  The
\* two sets are the magnitudes up to 128, in 1/Scale, whose tie is carried up
\* at two decimals and at one decimal; every other tie is cut down.
CarriesAtHundredths ==
    {2, 14, 130, 134, 138, 142, 146, 150, 154, 158, 162, 166, 170, 174, 182, 186, 190, 194, 202,
     206, 210, 214, 222, 226, 230, 234, 242, 246, 250, 254, 334, 354, 374, 394, 414, 434, 454,
     474, 494, 514, 518, 522, 526, 530, 534, 538, 542, 546, 550, 554, 558, 562, 566, 570, 574,
     578, 582, 586, 590, 594, 598, 602, 606, 610, 614, 618, 622, 626, 630, 634, 638, 646, 650,
     654, 658, 666, 670, 674, 678, 686, 690, 694, 698, 706, 710, 714, 718, 726, 730, 734, 738,
     746, 750, 754, 758, 766, 770, 774, 778, 786, 790, 794, 798, 806, 810, 814, 818, 826, 830,
     834, 838, 846, 850, 854, 858, 866, 870, 874, 878, 886, 890, 894, 898, 906, 910, 914, 918,
     926, 930, 934, 938, 946, 950, 954, 958, 966, 970, 974, 978, 986, 990, 994, 998, 1006, 1010,
     1014, 1018, 1286, 1306, 1326, 1346, 1366, 1386, 1406, 1426, 1446, 1466, 1486, 1506, 1526,
     1546, 1566, 1586, 1606, 1622, 1638, 1654, 1670, 1674, 1690, 1706, 1722, 1738, 1754, 1770,
     1774, 1790, 1806, 1822, 1838, 1854, 1870, 1874, 1890, 1906, 1922, 1938, 1954, 1970, 1974,
     1990, 2006, 2022, 2038}

CarriesAtTenths ==
    {4, 12, 20, 28, 132, 140, 148, 156, 164, 172, 180, 188, 204, 212, 220, 228, 244, 252, 260,
     268, 284, 292, 300, 308, 316, 324, 332, 348, 364, 372, 388, 404, 412, 428, 444, 452, 468,
     476, 484, 492, 508, 652, 692, 732, 772, 812, 852, 892, 932, 972, 1012, 1052, 1092, 1132,
     1172, 1212, 1252, 1292, 1316, 1332, 1356, 1372, 1396, 1412, 1436, 1452, 1476, 1492, 1516,
     1532, 1556, 1572, 1596, 1612, 1628, 1644, 1660, 1676, 1692, 1708, 1724, 1740, 1812, 1828,
     1844, 1860, 1876, 1892, 1908, 1924, 1940, 2012, 2028, 2044}

\* the decimal dtostrf prints for x, in units of 1/per
dtostrf(x, per, carries) ==
    LET a == IF x < 0 THEN 0 - x ELSE x
        q == (a * per) \div Scale
        r == (a * per) % Scale
        up == 2 * r > Scale \/ (2 * r = Scale /\ a \in carries)
        d == IF up THEN q + 1 ELSE q
    IN  IF x < 0 THEN 0 - d ELSE d

\* String(x, 2): the value in hundredths
String2(x) == dtostrf(x, 100, CarriesAtHundredths)
\* String(x, 1): the value in tenths
String1(x) == dtostrf(x, 10, CarriesAtTenths)

\* strftime of the wall clock, abstracted to the fact that it is one
IsoTime == [kind |-> "iso", n |-> 0]
BootToken(n) == [kind |-> "boot", n |-> n]

getLocalTime == clockSet

\* fault variant: the choice is made on the timeSynced flag
getTimestampByFlag ==
    IF ~timeSynced THEN BootToken(bootCount) ELSE IsoTime

\* "boot-" + String(bootCount) when getLocalTime() fails, else the strftime string
getTimestamp ==
    IF ~getLocalTime THEN BootToken(bootCount) ELSE IsoTime

-----------------------------------------------------------------------------
(* Output helpers: io is [trace, logFile, opens], threaded through a step;   *)
(* opens holds what the LittleFS.open(LOG_FILE) calls of the step will give *)

\* the results a LittleFS.open(..., FILE_APPEND) can have: no file on a filesystem
\* that is not mounted, a file or no file on a mounted one
OpenOutcomes == IF mounted THEN BOOLEAN ELSE {FALSE}

\* the same for the opens of the log file that the environment env explores
LogOpenOutcomes(env) == IF mounted THEN env.logOpens ELSE {FALSE}

IO(opens) == [trace |-> trace, logFile |-> logFile, opens |-> opens]

Msg(text, args) == [text |-> text, args |-> args]

Did(io, event) == [io EXCEPT !.trace = Append(@, event)]

SerialPrint(io, text) == Did(io, [ev |-> "print", text |-> text])

\* fault variant: the log file is never opened
OpenLogNever(outcome) == FALSE

\* if (file), for the File that LittleFS.open(LOG_FILE, FILE_APPEND) returned
OpenLog(outcome) == mounted /\ outcome

\* the line goes to the console always, to the log file when the open gave a file
logMessage(io, message) ==
    LET line == [stamp |-> IF getLocalTime THEN "iso" ELSE "",
                 text |-> message.text, args |-> message.args]
    IN  [trace |-> Append(io.trace, [ev |-> "log", line |-> line, opened |-> Head(io.opens)]),
         logFile |-> IF OpenLog(Head(io.opens)) THEN Append(io.logFile, line) ELSE io.logFile,
         opens |-> Tail(io.opens)]

\* fault variant: every code is shown twice
ledBlinkTwice(io, times, delayMs) ==
    Did(Did(io, [ev |-> "led", times |-> times, delayMs |-> delayMs]),
        [ev |-> "led", times |-> times, delayMs |-> delayMs])

\* fault variant: the LED is never driven
ledBlinkSilent(io, times, delayMs) == io

ledBlink(io, times, delayMs) ==
    IF times > 0 THEN Did(io, [ev |-> "led", times |-> times, delayMs |-> delayMs]) ELSE io


-----------------------------------------------------------------------------
(* Sensor Reader: readTemperature() of main.cpp, readSensors() of part_000 *)

InvalidReading == [tempC |-> NAN, humidity |-> NAN]

\* fault variant: the two ends of the range are rejected (<= and >= for < and >)
DSInRangeExclusive(t) == ~(t <= 0 - 55 * Scale \/ t >= 125 * Scale)

\* temp < -55.0 || temp > 125.0, negated
DSInRange(t) == ~(t < 0 - 55 * Scale \/ t > 125 * Scale)
\* t < -40.0 || t > 85.0, negated
AHTTempInRange(t) == ~(t < 0 - 40 * Scale \/ t > 85 * Scale)
\* fault variant: the humidity is not checked
AHTHumUnchecked(h) == TRUE

\* h < 0.0 || h > 100.0, negated
AHTHumInRange(h) == ~(h < 0 \/ h > 100 * Scale)

\* the one-wire branch: [reading, errors logged]
ReadDS18B20(e) ==
    IF e.t = DEVICE_DISCONNECTED_C
    THEN [reading |-> InvalidReading,
          errors |-> <<Msg("Sensor error: device disconnected", <<>>)>>]
    ELSE IF ~DSInRange(e.t)
    THEN [reading |-> InvalidReading,
          errors |-> <<Msg("Sensor error: reading out of range: ", <<String2(e.t)>>)>>]
    ELSE [reading |-> [tempC |-> e.t, humidity |-> NAN], errors |-> <<>>]

\* the USE_AHT20 branch: [reading, errors logged]
ReadAHT20(e) ==
    IF ~e.ok
    THEN [reading |-> InvalidReading,
          errors |-> <<Msg("Sensor error: AHT20 read failed", <<>>)>>]
    ELSE IF ~AHTTempInRange(e.t)
    THEN [reading |-> InvalidReading,
          errors |-> <<Msg("Sensor error: temperature out of range: ", <<String2(e.t)>>)>>]
    ELSE IF ~AHTHumInRange(e.h)
    THEN [reading |-> InvalidReading,
          errors |-> <<Msg("Sensor error: humidity out of range: ", <<String2(e.h)>>)>>]
    ELSE [reading |-> [tempC |-> e.t, humidity |-> e.h], errors |-> <<>>]

readSensors(b, e) == IF UsesAHT20(b) THEN ReadAHT20(e) ELSE ReadDS18B20(e)

SensorEvents(env, b) == IF UsesAHT20(b) THEN env.aht ELSE env.ds

\* io after the read has logged its errors
LogAll(io, msgs) ==
    IF msgs = <<>> THEN io ELSE logMessage(io, msgs[1])

-----------------------------------------------------------------------------
(* Local CSV storage: storeReading() *)

NoHumidity == NAN

Header(b) ==
    IF ~HumidityColumn(b)
    THEN [kind |-> "header", columns |-> <<"timestamp", "temperature_celsius">>]
    ELSE [kind |-> "header", columns |-> <<"timestamp", "temperature_celsius", "humidity_rh">>]

\* timestamp + "," + String(tempC, 2) [+ "," + humStr]
Row(b, ts, tempC, humidity) ==
    IF ~HumidityColumn(b)
    THEN [kind |-> "row", timestamp |-> ts, temperature |-> String2(tempC)]
    ELSE [kind |-> "row", timestamp |-> ts, temperature |-> String2(tempC),
          humidity |-> IF isnan(humidity) THEN NoHumidity ELSE String1(humidity)]

\* LittleFS.exists(DATA_FILE)
FileExists(df) == mounted /\ df.exists

\* fault variant: the header is written by every call
NeedsHeaderAlways(fileExists) == TRUE

\* whether the header goes before the row
NeedsHeader(fileExists) == ~fileExists

\* fault variant: the row is never written, the call reports nothing
storeReadingNoAppend(io, df, b, ts, tempC, humidity, opened) ==
    [io |-> Did(io, [ev |-> "store", opened |-> opened]), dataFile |-> df]

\* [io, dataFile] after storeReading(timestamp, tempC, humidity); opened: LittleFS.open gave a file
storeReading(io, df, b, ts, tempC, humidity, opened) ==
    LET fileExists == FileExists(df)
    IN  IF ~opened
        THEN [io |-> logMessage(Did(io, [ev |-> "store", opened |-> FALSE]),
                                Msg("Failed to open data file for writing", <<>>)),
              dataFile |-> df]
        ELSE [io |-> Did(io, [ev |-> "store", opened |-> TRUE]),
              dataFile |->
                  [exists |-> TRUE,
                   lines |-> (IF df.exists THEN df.lines ELSE <<>>)
                             \o (IF NeedsHeader(fileExists) THEN <<Header(b)>> ELSE <<>>)
                             \o <<Row(b, ts, tempC, humidity)>>]]

-----------------------------------------------------------------------------
(* Telemetry: sendToServer() *)

\* fault variant: the payload is stamped when it is built
PayloadStampedAtSend(tempC, humidity, ts) ==
    IF isnan(humidity)
    THEN [temperature |-> tempC, unit |-> "celsius", timestamp |-> getTimestamp,
          device |-> "DEVICE_NAME"]
    ELSE [temperature |-> tempC, unit |-> "celsius", timestamp |-> getTimestamp,
          device |-> "DEVICE_NAME", humidity |-> humidity]

\* the JsonDocument of sendToServer(): the float values as they are, the timestamp as passed
Payload(tempC, humidity, ts) ==
    IF isnan(humidity)
    THEN [temperature |-> tempC, unit |-> "celsius", timestamp |-> ts, device |-> "DEVICE_NAME"]
    ELSE [temperature |-> tempC, unit |-> "celsius", timestamp |-> ts, device |-> "DEVICE_NAME",
          humidity |-> humidity]

\* fault variant: any 2xx status counts as success
IsSuccessAny2xx(responseCode) == responseCode >= 200 /\ responseCode < 300

\* fault variant: no status counts as success
IsSuccessNever(responseCode) == FALSE

\* responseCode == 200
IsSuccess(responseCode) == responseCode = HTTP_OK

\* fault variant: the line of the README's sample output
SentMessageSuccessfully(tempC, humidity) == Msg("Sent <t>C successfully", <<String2(tempC)>>)

\* "Sent " + String(tempC, 2) + "°C" [+ " / " + String(humidity, 1) + "% RH"] + " (boot #" + bootCount + ")"
SentMessage(tempC, humidity) ==
    IF isnan(humidity)
    THEN Msg("Sent <t>C (boot #<n>)", <<String2(tempC), bootCount>>)
    ELSE Msg("Sent <t>C / <h>% RH (boot #<n>)", <<String2(tempC), String1(humidity), bootCount>>)

\* fault variant: a refused POST is made a second time
sendToServerRetry(io, tempC, humidity, ts, responseCode) ==
    LET post == [ev |-> "post", payload |-> Payload(tempC, humidity, ts), code |-> responseCode]
    IN  IF IsSuccess(responseCode)
        THEN [io |-> logMessage(Did(io, post), SentMessage(tempC, humidity)), ok |-> TRUE]
        ELSE [io |-> logMessage(Did(Did(io, post), post), Msg("Server error: ", <<responseCode>>)),
              ok |-> FALSE]

\* [io, ok] after sendToServer(tempC, humidity, timestamp) when http.POST returns responseCode
sendToServer(io, tempC, humidity, ts, responseCode) ==
    LET posted == Did(io, [ev |-> "post", payload |-> Payload(tempC, humidity, ts),
                           code |-> responseCode])
    IN  IF IsSuccess(responseCode)
        THEN [io |-> logMessage(posted, SentMessage(tempC, humidity)), ok |-> TRUE]
        ELSE [io |-> logMessage(posted, Msg("Server error: ", <<responseCode>>)), ok |-> FALSE]

-----------------------------------------------------------------------------
(* goToSleep() *)

\* the first half of goToSleep(): logMessage; Serial.flush
goToSleep(io) ==
    Did(logMessage(io, Msg("Sleeping for <s>s...", <<READING_INTERVAL_SEC>>)), [ev |-> "flush"])

\* fault variant: the radio is torn down after the timer is armed
powerDownTimerFirst(io) ==
    LET c == Did(io, [ev |-> "timer", seconds |-> READING_INTERVAL_SEC])
        d == Did(c, [ev |-> "wifiOff"])
    IN  Did(d, [ev |-> "deepSleep"])

\* the second half of goToSleep(): WiFi.disconnect(true), WiFi.mode(WIFI_OFF);
\* esp_sleep_enable_timer_wakeup; esp_deep_sleep_start
powerDown(io) ==
    LET c == Did(io, [ev |-> "wifiOff"])
        d == Did(c, [ev |-> "timer", seconds |-> READING_INTERVAL_SEC])
    IN  Did(d, [ev |-> "deepSleep"])


-----------------------------------------------------------------------------
(* The wake cycle: setup(), one action per step *)

NoEvent == [ok |-> FALSE, t |-> NAN, h |-> NAN]
NoFile == [exists |-> FALSE, lines |-> <<>>]

\* the state setup() starts from: nothing but RTC memory, the clock and the flash is kept
Volatile ==
    /\ mounted = FALSE
    /\ wifi = "off"
    /\ sntp = FALSE
    /\ timerArmed = FALSE
    /\ pc = "setup"
    /\ elapsed = 0
    /\ retries = 0
    /\ raw = NoEvent
    /\ reading = InvalidReading
    /\ timestamp = BootToken(0)
    /\ connects = 0
    /\ trace = <<>>
    /\ logFile = <<>>

\* cold start: RTC memory holds its initialisers, the flash holds no data file
Init ==
    /\ build \in Builds
    /\ bootCount = 0
    /\ timeSynced = FALSE
    /\ clockSet = FALSE
    /\ dataFile = NoFile
    /\ stores = <<>>
    /\ Volatile

Commit(io) == trace' = io.trace /\ logFile' = io.logFile

\* the timer armed by goToSleep fires: setup() runs again, only RTC memory surviving
Wake(env) ==
    /\ pc = "asleep"
    /\ timerArmed
    /\ bootCount < env.maxWakes
    /\ mounted' = FALSE
    /\ wifi' = "off"
    /\ sntp' = FALSE
    /\ timerArmed' = FALSE
    /\ pc' = "setup"
    /\ elapsed' = 0
    /\ retries' = 0
    /\ raw' = NoEvent
    /\ reading' = InvalidReading
    /\ timestamp' = BootToken(0)
    /\ connects' = 0
    /\ trace' = <<>>
    /\ logFile' = <<>>
    /\ UNCHANGED <<build, bootCount, timeSynced, clockSet, dataFile, stores>>

\* fault variant: the counter is not kept (no increment reaches RTC memory)
IncrementedLost(n) == n

\* bootCount++
Incremented(n) == n + 1

\* bootCount++; ledBlink(1, 200); the banner
Boot ==
    /\ pc = "setup"
    /\ bootCount' = Incremented(bootCount)
    /\ Commit(SerialPrint(ledBlink(Did(IO(<<>>), [ev |-> "boot"]), 1, 200), "Wake #<n>"))
    /\ pc' = "storage"
    /\ UNCHANGED <<build, connects, timeSynced, clockSet, dataFile, mounted, wifi, sntp, timerArmed,
                   elapsed, retries, raw, reading, timestamp, stores>>

\* LittleFS.begin(true): formats the flash when the first mount fails
StorageInit(env) ==
    /\ pc = "storage"
    /\ \E outcome \in env.mounts :
        /\ mounted' = (outcome # "failed")
        /\ dataFile' = IF outcome = "formatted" THEN NoFile ELSE dataFile
        /\ stores' = IF outcome = "formatted" THEN <<>> ELSE stores
        /\ Commit(IF outcome = "failed"
                  THEN SerialPrint(Did(IO(<<>>), [ev |-> "mount", ok |-> FALSE]), "LittleFS mount failed")
                  ELSE Did(IO(<<>>), [ev |-> "mount", ok |-> TRUE]))
    /\ pc' = "sensorInit"
    /\ UNCHANGED <<build, connects, bootCount, timeSynced, clockSet, wifi, sntp, timerArmed,
                   elapsed, retries, raw, reading, timestamp>>

NotFoundMessage(b) ==
    IF UsesAHT20(b) THEN Msg("ERROR: AHT20 not found! Check wiring", <<>>)
    ELSE Msg("ERROR: No DS18B20 sensor found!", <<>>)

\* fault variant: setup() returns without goToSleep() and the empty loop() runs for ever
AfterSensorMissingHalt == "halt"

\* fault variant: the return is missing and setup() carries on to the network
AfterSensorMissingFallsThrough == "connect"

\* where setup() goes when no sensor is found: goToSleep(); return;
AfterSensorMissing == "sleep"

\* sensors.begin() / aht.begin(): no device is the sensor-error exit
SensorInit(env) ==
    /\ pc = "sensorInit"
    /\ \E found \in BOOLEAN, o \in LogOpenOutcomes(env) :
        LET a == Did(IO(<<o>>), [ev |-> "sensorInit", found |-> found])
        IN  IF ~found
            THEN /\ Commit(ledBlink(logMessage(a, NotFoundMessage(build)), 5, 50))
                 /\ pc' = AfterSensorMissing
            ELSE /\ Commit(IF UsesAHT20(build)
                           THEN logMessage(a, Msg("AHT20 sensor ready", <<>>)) ELSE a)
                 /\ pc' = "connect"
    /\ UNCHANGED <<build, connects, bootCount, timeSynced, clockSet, dataFile, mounted, wifi, sntp,
                   timerArmed, elapsed, retries, raw, reading, timestamp, stores>>

\* fault variant: the early return is missing
AlreadyConnectedIgnored == FALSE

\* WiFi.status() == WL_CONNECTED
AlreadyConnected == wifi = "connected"

\* connectWiFi(): the early return, else the start of the join loop
ConnectStart(env) ==
    /\ pc = "connect"
    /\ connects' = connects + 1
    /\ IF AlreadyConnected
       THEN /\ pc' = "timeSync"
            /\ UNCHANGED <<wifi, elapsed, trace, logFile>>
       ELSE /\ \E o \in LogOpenOutcomes(env) :
                 Commit(logMessage(IO(<<o>>), Msg("Connecting to WiFi...", <<>>)))
            /\ wifi' = "idle"
            /\ elapsed' = 0
            /\ pc' = "wifiPoll"
    /\ UNCHANGED <<build, bootCount, timeSynced, clockSet, dataFile, mounted, sntp,
                   timerArmed, retries, raw, reading, timestamp, stores>>

\* fault variant: the first failed poll is taken for a timeout
TimedOutAtOnce(e) == TRUE

\* millis() - startTime > WIFI_TIMEOUT_MS
TimedOut(e) == e > WIFI_TIMEOUT_MS

\* millis() - startTime after delay(500)
AfterDelay(e) == e + WIFI_POLL_MS

\* the time one wifiMulti.run() call takes, in ms: it returns at once, or after
\* a scan and a join attempt
RunDurations == {0, 3000}

\* one wifiMulti.run() call of while (wifiMulti.run() != WL_CONNECTED), and
\* the rest of connectWiFi() when it reports the association
ConnectPoll(env) ==
    /\ pc = "wifiPoll"
    /\ \E joined \in BOOLEAN, d \in RunDurations, o \in LogOpenOutcomes(env) :
        IF joined
        THEN /\ wifi' = "connected"
             /\ Commit(ledBlink(logMessage(SerialPrint(Did(IO(<<o>>), [ev |-> "join", ok |-> TRUE]), ""),
                                           Msg("WiFi connected to: <ssid> (<ip>)", <<>>)), 2, 100))
             /\ pc' = "timeSync"
             /\ elapsed' = 0
        ELSE /\ elapsed' = elapsed + d
             /\ pc' = "wifiWait"
             /\ UNCHANGED <<wifi, trace, logFile>>
    /\ UNCHANGED <<build, connects, bootCount, timeSynced, clockSet, dataFile, mounted, sntp,
                   timerArmed, retries, raw, reading, timestamp, stores>>

\* the body of the join loop, run() having returned without an association:
\* the timeout test on the time waited so far, else delay(500)
ConnectWait(env) ==
    /\ pc = "wifiWait"
    /\ IF TimedOut(elapsed)
       THEN /\ \E o \in LogOpenOutcomes(env) :
                 Commit(logMessage(Did(IO(<<o>>), [ev |-> "join", ok |-> FALSE]),
                                   Msg("WiFi connection timed out", <<>>)))
            /\ pc' = "offline"
            /\ elapsed' = 0
       ELSE /\ elapsed' = AfterDelay(elapsed)
            /\ pc' = "wifiPoll"
            /\ UNCHANGED <<trace, logFile>>
    /\ UNCHANGED <<build, connects, bootCount, timeSynced, clockSet, dataFile, mounted, wifi, sntp,
                   timerArmed, retries, raw, reading, timestamp, stores>>


\* sensors.requestTemperatures(): a conversion is started; the one-wire read
\* starts two and fetches the value of the second
RequestTemperatures(io) == Did(io, [ev |-> "convert"])

\* the body of readSensors() / readTemperature() on the driver's answer e
TakeReading(io, e) ==
    LET r == readSensors(build, e)
        a == IF UsesAHT20(build) THEN io ELSE RequestTemperatures(RequestTemperatures(io))
    IN  [io |-> LogAll(Did(a, [ev |-> "read"]), r.errors), reading |-> r.reading]

\* fault variant: the reading is used whatever it is
ReadingValidAlways(r) == TRUE

\* !isnan(tempC)
ReadingValid(r) == ~isnan(r.tempC)

\* join failed: logMessage("No WiFi ..."), then the reading is taken anyway
OfflineRead(env) ==
    /\ pc = "offline"
    /\ \E e \in SensorEvents(env, build), o1 \in LogOpenOutcomes(env), o2 \in LogOpenOutcomes(env) :
        LET r == TakeReading(logMessage(IO(<<o1, o2>>),
                                        Msg("No WiFi - storing reading locally only", <<>>)), e)
        IN  /\ raw' = e
            /\ reading' = r.reading
            /\ Commit(r.io)
    /\ pc' = "offlineStore"
    /\ UNCHANGED <<build, connects, bootCount, timeSynced, clockSet, dataFile, mounted, wifi, sntp,
                   timerArmed, elapsed, retries, timestamp, stores>>

\* join failed: a valid reading is stored locally; ledBlink(3, 50)
OfflineStore(env) ==
    /\ pc = "offlineStore"
    /\ IF ReadingValid(reading)
       THEN \E opened \in OpenOutcomes, o1 \in LogOpenOutcomes(env), o2 \in LogOpenOutcomes(env) :
            LET s == storeReading(IO(<<o1, o2>>), dataFile, build, getTimestamp,
                                  reading.tempC, reading.humidity, opened)
            IN  /\ dataFile' = s.dataFile
                /\ stores' = Append(stores, [opened |-> opened, timestamp |-> getTimestamp,
                                             reading |-> reading])
                /\ Commit(ledBlink(logMessage(s.io, Msg("Stored locally: <t>C",
                                                        <<String2(reading.tempC)>>)), 3, 50))
       ELSE /\ Commit(ledBlink(IO(<<>>), 3, 50))
            /\ UNCHANGED <<dataFile, stores>>
    /\ pc' = "sleep"
    /\ UNCHANGED <<build, connects, bootCount, timeSynced, clockSet, mounted, wifi, sntp, timerArmed,
                   elapsed, retries, raw, reading, timestamp>>

\* fault variant: the sync runs on every wake
SyncDueEveryWake == TRUE

\* fault variant: the periodic re-sync is missing
SyncDueFirstOnly == ~timeSynced

\* !timeSynced || bootCount % NTP_SYNC_INTERVAL_BOOTS == 0
SyncDue == ~timeSynced \/ bootCount % NTP_SYNC_INTERVAL_BOOTS = 0

\* joined: syncTime() is entered when due (configTime starts the SNTP client)
SyncDecide ==
    /\ pc = "timeSync"
    /\ IF SyncDue
       THEN /\ Commit(Did(IO(<<>>), [ev |-> "syncTime", synced |-> timeSynced]))
            /\ sntp' = TRUE
            /\ retries' = 0
            /\ pc' = "syncPoll"
       ELSE /\ pc' = "read"
            /\ UNCHANGED <<sntp, retries, trace, logFile>>
    /\ UNCHANGED <<build, connects, bootCount, timeSynced, clockSet, dataFile, mounted, wifi,
                   timerArmed, elapsed, raw, reading, timestamp, stores>>

\* retries < 10, the bound of the poll loop
MayRetry(r) == r < NTP_MAX_RETRIES

\* retries < 10, the test after the loop
SyncSucceeded(r) == r < NTP_MAX_RETRIES

\* one evaluation of while (!getLocalTime(&timeinfo) && retries < 10): the loop
\* body, or the end of the loop with what the last getLocalTime() gave
SyncPoll ==
    /\ pc = "syncPoll"
    /\ IF ~getLocalTime /\ MayRetry(retries)
       THEN /\ retries' = retries + 1
            /\ UNCHANGED <<pc, trace, logFile>>
       ELSE /\ Commit(Did(IO(<<>>), [ev |-> "polled", resolved |-> getLocalTime]))
            /\ pc' = "syncDone"
            /\ UNCHANGED retries
    /\ UNCHANGED <<build, connects, bootCount, timeSynced, clockSet, dataFile, mounted, wifi, sntp,
                   timerArmed, elapsed, raw, reading, timestamp, stores>>

\* the rest of syncTime(): if (retries < 10) the flag and the synced line, else
\* the failure line; logMessage() reads the clock again
SyncDone(env) ==
    /\ pc = "syncDone"
    /\ \E o \in LogOpenOutcomes(env) :
        IF SyncSucceeded(retries)
        THEN /\ timeSynced' = TRUE
             /\ Commit(logMessage(IO(<<o>>), Msg("Time synced: <iso>", <<>>)))
        ELSE /\ Commit(logMessage(IO(<<o>>), Msg("NTP sync failed", <<>>)))
             /\ UNCHANGED timeSynced
    /\ pc' = "read"
    /\ retries' = 0
    /\ UNCHANGED <<build, connects, bootCount, clockSet, dataFile, mounted, wifi, sntp, timerArmed,
                   elapsed, raw, reading, timestamp, stores>>

\* the SNTP client started by configTime() gets an answer and sets the clock
NtpResponse ==
    /\ sntp
    /\ wifi = "connected"
    /\ ~clockSet
    /\ clockSet' = TRUE
    /\ UNCHANGED <<build, connects, bootCount, timeSynced, dataFile, logFile, mounted, wifi, sntp,
                   timerArmed, pc, elapsed, retries, raw, reading, timestamp, trace, stores>>

\* joined: the reading of this wake
ReadSensors(env) ==
    /\ pc = "read"
    /\ \E e \in SensorEvents(env, build), o \in LogOpenOutcomes(env) :
        LET r == TakeReading(IO(<<o>>), e)
        IN  /\ raw' = e
            /\ reading' = r.reading
            /\ Commit(r.io)
    /\ pc' = "stamp"
    /\ UNCHANGED <<build, connects, bootCount, timeSynced, clockSet, dataFile, mounted, wifi, sntp,
                   timerArmed, elapsed, retries, timestamp, stores>>

TemperatureLines(io, r) ==
    LET a == SerialPrint(io, "Temperature: <c>C / <f>F")
    IN  IF ~isnan(r.humidity) THEN SerialPrint(a, "Humidity: <h>%") ELSE a

\* fault variant: a reading that could not be stored is not sent
AfterStoreSkipsSend(opened) == IF opened THEN "send" ELSE "sleep"

\* where setup() goes after storeReading(): to sendToServer(), whatever the open did
AfterStore(opened) == "send"

\* a valid reading is stamped and shown on the console; an invalid one is ledBlink(5, 50)
Stamp ==
    /\ pc = "stamp"
    /\ IF ReadingValid(reading)
       THEN /\ timestamp' = getTimestamp
            /\ Commit(TemperatureLines(IO(<<>>), reading))
            /\ pc' = "persist"
       ELSE /\ Commit(ledBlink(IO(<<>>), 5, 50))
            /\ pc' = "sleep"
            /\ UNCHANGED timestamp
    /\ UNCHANGED <<build, connects, bootCount, timeSynced, clockSet, dataFile, mounted, wifi, sntp,
                   timerArmed, elapsed, retries, raw, reading, stores>>

\* storeReading(timestamp, ...) with the stamp taken before; its failure line
\* reads the clock again
Persist(env) ==
    /\ pc = "persist"
    /\ \E opened \in OpenOutcomes, o \in LogOpenOutcomes(env) :
        LET s == storeReading(IO(<<o>>), dataFile, build, timestamp,
                              reading.tempC, reading.humidity, opened)
        IN  /\ dataFile' = s.dataFile
            /\ stores' = Append(stores, [opened |-> opened, timestamp |-> timestamp,
                                         reading |-> reading])
            /\ Commit(s.io)
            /\ pc' = AfterStore(opened)
    /\ UNCHANGED <<build, connects, bootCount, timeSynced, clockSet, mounted, wifi, sntp, timerArmed,
                   elapsed, retries, raw, reading, timestamp>>

\* sendToServer(), then ledBlink(1) or ledBlink(3, 50)
Send(env) ==
    /\ pc = "send"
    /\ \E responseCode \in env.codes, o \in LogOpenOutcomes(env) :
        LET r == sendToServer(IO(<<o>>), reading.tempC, reading.humidity, timestamp, responseCode)
        IN  Commit(IF r.ok THEN ledBlink(r.io, 1, 100) ELSE ledBlink(r.io, 3, 50))
    /\ pc' = "sleep"
    /\ UNCHANGED <<build, connects, bootCount, timeSynced, clockSet, dataFile, mounted, wifi, sntp,
                   timerArmed, elapsed, retries, raw, reading, timestamp, stores>>

\* goToSleep(): the sleep line is logged and the console flushed
GoToSleep(env) ==
    /\ pc = "sleep"
    /\ \E o \in LogOpenOutcomes(env) : Commit(goToSleep(IO(<<o>>)))
    /\ pc' = "powerDown"
    /\ UNCHANGED <<build, connects, bootCount, timeSynced, clockSet, dataFile, mounted, wifi, sntp,
                   timerArmed, elapsed, retries, raw, reading, timestamp, stores>>

\* goToSleep(), after the flush: radio off, wake timer armed, deep sleep
PowerDown ==
    /\ pc = "powerDown"
    /\ Commit(powerDown(IO(<<>>)))
    /\ wifi' = "off"
    /\ timerArmed' = TRUE
    /\ pc' = "asleep"
    /\ UNCHANGED <<build, connects, bootCount, timeSynced, clockSet, dataFile, mounted, sntp,
                   elapsed, retries, raw, reading, timestamp, stores>>

\* the steps setup() takes by itself
Step(env) ==
    \/ Boot
    \/ StorageInit(env)
    \/ SensorInit(env)
    \/ ConnectStart(env)
    \/ ConnectPoll(env)
    \/ ConnectWait(env)
    \/ OfflineRead(env)
    \/ OfflineStore(env)
    \/ SyncDecide
    \/ SyncPoll
    \/ SyncDone(env)
    \/ ReadSensors(env)
    \/ Stamp
    \/ Persist(env)
    \/ Send(env)
    \/ GoToSleep(env)
    \/ PowerDown

Next == Step(Env) \/ NtpResponse \/ Wake(Env)

Spec == Init /\ [][Next]_vars

NextLive == Step(LiveEnv) \/ NtpResponse \/ Wake(LiveEnv)

\* the processor runs setup() without pause until deep sleep
FairSpec == Init /\ [][NextLive]_vars /\ WF_vars(Step(LiveEnv))

\* the same steps without the fairness: the wake cycle on a log file whose opens may fail
SpecStorage == Init /\ [][NextLive]_vars

NextStore == Step(StoreEnv) \/ NtpResponse \/ Wake(StoreEnv)

SpecStore == Init /\ [][NextStore]_vars


NextCadence == Step(CadenceEnv) \/ NtpResponse \/ Wake(CadenceEnv)

SpecCadence == Init /\ [][NextCadence]_vars

\* a caller that calls connectWiFi() once more after it returned true; setup()
\* itself calls it once per wake
ConnectAgain ==
    /\ pc = "timeSync"
    /\ connects < MaxConnectCalls
    /\ pc' = "connect"
    /\ UNCHANGED <<build, connects, bootCount, timeSynced, clockSet, dataFile, logFile, mounted,
                   wifi, sntp, timerArmed, elapsed, retries, raw, reading, timestamp, trace,
                   stores>>

NextReconnect == Step(LiveEnv) \/ NtpResponse \/ Wake(LiveEnv) \/ ConnectAgain

SpecReconnect == Init /\ [][NextReconnect]_vars


-----------------------------------------------------------------------------
(* Reading the trace of the current wake *)

Events(kind) == {i \in DOMAIN trace : trace[i].ev = kind}
Count(kind) == Cardinality(Events(kind))
LogLines(texts) == {i \in Events("log") : trace[i].line.text \in texts}
Logged(text) == LogLines({text}) # {}

SyncCalls == Events("syncTime")
SyncInvoked == SyncCalls # {}
Joined == \E i \in Events("join") : trace[i].ok
JoinFailed == \E i \in Events("join") : ~trace[i].ok
SensorFound == \E i \in Events("sensorInit") : trace[i].found
ReadDone == Events("read") # {}

SensorErrorTexts ==
    {"Sensor error: device disconnected", "Sensor error: reading out of range: ",
     "Sensor error: AHT20 read failed", "Sensor error: temperature out of range: ",
     "Sensor error: humidity out of range: "}
SensorErrorLogged == LogLines(SensorErrorTexts) # {}

SentTexts == {"Sent <t>C (boot #<n>)", "Sent <t>C / <h>% RH (boot #<n>)"}

\* the datasheet ranges the specification names, in model units
SpecTempLow(b) == IF UsesAHT20(b) THEN 0 - 40 * Scale ELSE 0 - 55 * Scale
SpecTempHigh(b) == IF UsesAHT20(b) THEN 85 * Scale ELSE 125 * Scale
SpecTempOk(b, t) == t >= SpecTempLow(b) /\ t <= SpecTempHigh(b)
SpecHumOk(h) == h >= 0 /\ h <= 100 * Scale

-----------------------------------------------------------------------------
(* Claims *)

\* C1: every wake cycle, whatever the sensor, the network, the time servers, the
\* server and the flash answer, ends in deep sleep with the wake timer armed.
C1_EveryWakeReachesSleep ==
    (pc = "setup") ~> (pc = "asleep" /\ timerArmed /\ trace[Len(trace)].ev = "deepSleep")

\* C1 witness: asleep with the timer armed after a wake in which the mount failed
\* and the join timed out
C1_Witness ==
    /\ pc = "asleep"
    /\ timerArmed
    /\ bootCount = 2
    /\ ~mounted
    /\ JoinFailed

\* C2, the step part: the first step of a cycle adds one to bootCount, no other step changes it
C2_Step ==
    /\ pc = "setup" => bootCount' = bootCount + 1
    /\ pc # "setup" => bootCount' = bootCount

\* C2: bootCount is 0 at cold start; every wake cycle increments it exactly once,
\* as its first step and on every path; no step decreases or resets it.
C2_WakeCountOncePerWake ==
    /\ bootCount = 0
    /\ [][C2_Step]_vars
    /\ [](pc # "setup" => (Count("boot") = 1 /\ trace[1].ev = "boot"))

\* C2 witness: the second wake has gone to sleep through the sensor-not-found exit
C2_Witness ==
    /\ pc = "asleep"
    /\ bootCount = 2
    /\ ~SensorFound
    /\ Count("boot") = 1

\* C3 as claimed: syncTime runs on wake 1 always, and on a later wake only when
\* bootCount is a multiple of the re-sync interval.
C3_SyncOnWakeOneAndMultiplesOnly ==
    /\ (pc = "asleep" /\ bootCount = 1) => SyncInvoked
    /\ (bootCount > 1 /\ SyncInvoked) => bootCount % NTP_SYNC_INTERVAL_BOOTS = 0

\* C3 as amended: syncTime runs on wake 1 whenever the join succeeds there; on a
\* later wake it runs only when bootCount is a multiple of the interval or no
\* earlier sync has succeeded (timeSynced still false at the call); on a multiple
\* of the interval it runs whenever the join succeeds.
C3_SyncCadence ==
    /\ (bootCount = 1 /\ Joined /\ pc # "timeSync") => SyncInvoked
    /\ \A i \in SyncCalls :
         bootCount > 1 => (bootCount % NTP_SYNC_INTERVAL_BOOTS = 0 \/ ~trace[i].synced)
    /\ (bootCount % NTP_SYNC_INTERVAL_BOOTS = 0 /\ Joined /\ pc # "timeSync") => SyncInvoked

\* C3 witness: the re-sync of wake 40, with the time synced long before
C3_Witness ==
    /\ bootCount = 2 * NTP_SYNC_INTERVAL_BOOTS
    /\ \E i \in SyncCalls : trace[i].synced

\* C4: syncTime is invoked in a wake exactly when the join succeeded and (timeSynced
\* is false or bootCount is a multiple of the interval); it runs after the join
\* and before the sensor read, and never without a sensor or without a join.
C4_SyncIffJoinedAndDue ==
    /\ \A i \in SyncCalls :
         /\ SensorFound
         /\ \E j \in Events("join") : trace[j].ok /\ j < i
         /\ \A k \in Events("read") : i < k
         /\ ~trace[i].synced \/ bootCount % NTP_SYNC_INTERVAL_BOOTS = 0
    /\ Count("syncTime") <= 1
    /\ (Joined /\ pc # "timeSync" /\ (~timeSynced \/ bootCount % NTP_SYNC_INTERVAL_BOOTS = 0))
         => SyncInvoked
    /\ (Joined /\ pc # "timeSync" /\ ~SyncInvoked)
         => (timeSynced /\ bootCount % NTP_SYNC_INTERVAL_BOOTS # 0)

\* C4 witness: wake 20 re-synced between its join and its sensor read
C4_Witness ==
    /\ pc = "asleep"
    /\ bootCount = NTP_SYNC_INTERVAL_BOOTS
    /\ \E i \in SyncCalls : trace[i].synced /\ \E k \in Events("read") : i < k

\* syncTime() has been called in this wake and has returned
SyncReturned == Events("polled") # {} /\ pc \notin {"syncPoll", "syncDone"}

\* C5 as claimed: once syncTime has returned, it has set timeSynced and logged
\* the synced time exactly when one of its polls resolved the time; otherwise
\* it has logged the failure and left timeSynced as it was.
C5_SyncedIffAPollResolved ==
    SyncReturned =>
        \A i \in Events("polled") :
            /\ trace[i].resolved <=> Logged("Time synced: <iso>")
            /\ trace[i].resolved => timeSynced
            /\ ~trace[i].resolved =>
                  (Logged("NTP sync failed") /\ \A c \in SyncCalls : timeSynced = trace[c].synced)

\* C6: sendToServer makes one POST; it returns true (setup then blinks once) exactly
\* on status 200; on any other status or transport error it logs the code as a
\* server error, returns false (setup blinks three times fast), and no "Sent" line is logged.
C6_SendTrueIff200 ==
    /\ Count("post") <= 1
    /\ \A i \in Events("post") :
         /\ Len(trace) >= i + 2
         /\ trace[i + 1].ev = "log"
         /\ trace[i + 2].ev = "led"
         /\ IF trace[i].code = 200
            THEN /\ trace[i + 1].line.text \in SentTexts
                 /\ trace[i + 2].times = 1
                 /\ trace[i + 2].delayMs = 100
            ELSE /\ trace[i + 1].line.text = "Server error: "
                 /\ trace[i + 1].line.args = <<trace[i].code>>
                 /\ trace[i + 2].times = 3
                 /\ trace[i + 2].delayMs = 50
                 /\ LogLines(SentTexts) = {}

\* C6 witness: a POST that failed in the transport, its wake asleep
C6_Witness ==
    /\ pc = "asleep"
    /\ \E i \in Events("post") : trace[i].code < 0


\* the storeReading calls whose open succeeded, in call order
IsOpened(c) == c.opened
OpenedStores == SelectSeq(stores, IsOpened)

\* C7: from a data file that does not exist, the storeReading calls whose open
\* succeeded leave one header row, first, followed by one row per call in call
\* order; a failed open in between adds no line and costs no header.
C7_OneHeaderThenRows ==
    /\ dataFile.exists <=> OpenedStores # <<>>
    /\ ~dataFile.exists => dataFile.lines = <<>>
    /\ dataFile.exists =>
         /\ Len(dataFile.lines) = Len(OpenedStores) + 1
         /\ dataFile.lines[1] = Header(build)
         /\ \A i \in 1..Len(OpenedStores) :
              dataFile.lines[i + 1] = Row(build, OpenedStores[i].timestamp,
                                          OpenedStores[i].reading.tempC,
                                          OpenedStores[i].reading.humidity)

\* C7 witness: three calls over three wakes, the second with a failed open
C7_Witness ==
    /\ Len(stores) = 3
    /\ stores[1].opened
    /\ ~stores[2].opened
    /\ stores[3].opened
    /\ Len(dataFile.lines) = 3

\* the temperature the driver handed to the read (none after an I2C bus failure)
HasRawTemp == ReadDone /\ raw.ok
RawOutOfRange == raw.t = DEVICE_DISCONNECTED_C \/ ~SpecTempOk(build, raw.t)

\* C8 as claimed: a raw temperature outside the sensor's range, or the
\* disconnected sentinel, gives an invalid temperature and a sensor-error line;
\* a raw temperature inside the range (ends included) is returned as it is,
\* with no sensor-error line.
C8_RangeDecidesValidity ==
    HasRawTemp =>
        IF RawOutOfRange
        THEN isnan(reading.tempC) /\ SensorErrorLogged
        ELSE reading.tempC = raw.t /\ ~SensorErrorLogged

\* C8 as amended: as claimed for the one-wire sensor; for the I2C sensor a raw
\* temperature inside the range is returned, with no sensor-error line, only when
\* the humidity of the same event is within 0 .. 100, and otherwise the reading
\* is invalid and a sensor-error line is logged.
C8_RangeAndHumidityDecideValidity ==
    HasRawTemp =>
        IF RawOutOfRange \/ (UsesAHT20(build) /\ ~SpecHumOk(raw.h))
        THEN isnan(reading.tempC) /\ SensorErrorLogged
        ELSE reading.tempC = raw.t /\ ~SensorErrorLogged

\* C8 witness: the one-wire sensor read exactly 125 degrees and the value was kept
C8_Witness ==
    /\ ~UsesAHT20(build)
    /\ ReadDone
    /\ raw.t = 125 * Scale
    /\ reading.tempC = raw.t

\* C9 as claimed: the I2C sensor's two values are validated independently, and
\* only a bus failure invalidates both.
C9_IndependentValidation ==
    (UsesAHT20(build) /\ ReadDone) =>
        /\ (raw.ok /\ SpecTempOk(build, raw.t) /\ ~SpecHumOk(raw.h))
              => (reading.tempC = raw.t /\ isnan(reading.humidity))
        /\ (raw.ok /\ ~SpecTempOk(build, raw.t) /\ SpecHumOk(raw.h))
              => (isnan(reading.tempC) /\ reading.humidity = raw.h)
        /\ ~raw.ok => (isnan(reading.tempC) /\ isnan(reading.humidity))

\* C9 as amended: the I2C reading holds both values when the bus read succeeded and
\* both are in range; a bus failure, an out-of-range temperature or an out-of-range
\* humidity each give a reading with both fields invalid and one sensor-error line.
C9_AllOrNothing ==
    (UsesAHT20(build) /\ ReadDone) =>
        IF raw.ok /\ SpecTempOk(build, raw.t) /\ SpecHumOk(raw.h)
        THEN reading = [tempC |-> raw.t, humidity |-> raw.h] /\ ~SensorErrorLogged
        ELSE reading = InvalidReading /\ Cardinality(LogLines(SensorErrorTexts)) = 1

\* C9 witness: an in-range temperature came with an out-of-range humidity
C9_Witness ==
    /\ UsesAHT20(build)
    /\ ReadDone
    /\ raw.ok
    /\ SpecTempOk(build, raw.t)
    /\ ~SpecHumOk(raw.h)
    /\ reading = InvalidReading

\* C10: a wake whose reading is invalid calls neither storeReading nor sendToServer;
\* every row of the data file and every payload POSTed carries a temperature
\* inside the sensor's range.
C10_InvalidNeverStoredOrSent ==
    /\ (ReadDone /\ isnan(reading.tempC)) => (Count("store") = 0 /\ Count("post") = 0)
    /\ \A i \in 2..Len(dataFile.lines) :
         /\ dataFile.lines[i].temperature >= String2(SpecTempLow(build))
         /\ dataFile.lines[i].temperature <= String2(SpecTempHigh(build))
    /\ \A i \in Events("post") : SpecTempOk(build, trace[i].payload.temperature)

\* C10 witness: a joined wake with an invalid reading is asleep, rows of earlier
\* wakes in the file
C10_Witness ==
    /\ pc = "asleep"
    /\ Joined
    /\ ReadDone
    /\ isnan(reading.tempC)
    /\ Len(dataFile.lines) >= 2

\* the storeReading call of this wake, as recorded in the history
LastStore == stores[Len(stores)]
\* the last line of the data file is the row of reading r stamped ts
LastRowIs(ts, r) ==
    /\ dataFile.exists
    /\ Len(dataFile.lines) >= 2
    /\ dataFile.lines[Len(dataFile.lines)] = Row(build, ts, r.tempC, r.humidity)
\* the data file holds the header and one row per opened call, or does not exist
RowsMatchOpenedStores ==
    IF OpenedStores = <<>> THEN ~dataFile.exists
    ELSE dataFile.exists /\ Len(dataFile.lines) = Len(OpenedStores) + 1

\* C11 as claimed: whenever a POST has been attempted in a wake, the same reading
\* is a row of the data file, written earlier in the wake, and it stays there
\* whatever the result of the send.
C11_PostedReadingIsPersisted ==
    \A i \in Events("post") :
        /\ \E j \in Events("store") : j < i /\ trace[j].opened
        /\ LastRowIs(trace[i].payload.timestamp, reading)

\* C11 as amended: whenever a POST has been attempted in a wake, storeReading was
\* called earlier in the wake with the same reading and timestamp; when its open
\* succeeded the row is the last line of the data file and stays there whatever
\* the result of the send; when its open failed the failure is logged, no row is
\* written, and the POST is attempted all the same.
C11_PostedReadingWasStored ==
    \A i \in Events("post") :
        /\ trace[i].payload.temperature = reading.tempC
        /\ Count("store") = 1
        /\ \E j \in Events("store") :
             /\ j < i
             /\ stores # <<>>
             /\ LastStore = [opened |-> trace[j].opened,
                             timestamp |-> trace[i].payload.timestamp, reading |-> reading]
             /\ RowsMatchOpenedStores
             /\ IF trace[j].opened
                THEN LastRowIs(trace[i].payload.timestamp, reading)
                ELSE Logged("Failed to open data file for writing")

\* C11 witness: the send failed in a wake whose row was written, and the row is
\* still the last line of the file when the device is asleep
C11_Witness ==
    /\ pc = "asleep"
    /\ \E i \in Events("post") : trace[i].code # HTTP_OK
    /\ \E j \in Events("store") : trace[j].opened
    /\ LastRowIs(timestamp, reading)

\* the ledBlink(times, delayMs) calls of this wake
Blinks(times, delayMs) ==
    {i \in Events("led") : trace[i].times = times /\ trace[i].delayMs = delayMs}
StoreOpened == \E j \in Events("store") : trace[j].opened
InSleepPath == pc \in {"sleep", "powerDown", "asleep"}
\* the wake found its sensor, failed to join and read a valid value
OfflineValidWake == InSleepPath /\ SensorFound /\ JoinFailed /\ ReadDone /\ ~isnan(reading.tempC)
\* no POST, no time sync, three fast blinks once, then sleep
OfflineOutcome ==
    /\ Count("post") = 0
    /\ ~SyncInvoked
    /\ Cardinality(Blinks(3, 50)) = 1
    /\ Blinks(2, 100) = {} /\ Blinks(1, 100) = {} /\ Blinks(5, 50) = {}
    /\ pc = "asleep" => trace[Len(trace)].ev = "deepSleep"

\* C12 as claimed: a wake with a sensor, a failed join and a valid read appends
\* exactly one row with that temperature, attempts no POST and no time sync,
\* blinks three times fast and goes to sleep.
C12_OfflineRowAlwaysAppended ==
    OfflineValidWake =>
        /\ Count("store") = 1
        /\ StoreOpened
        /\ RowsMatchOpenedStores
        /\ LastRowIs(LastStore.timestamp, reading)
        /\ OfflineOutcome

\* C12 as amended: such a wake calls storeReading once with that temperature,
\* attempts no POST and no time sync, blinks three times fast and goes to sleep;
\* the call appends exactly one row when the data file could be opened, and
\* appends nothing and logs the failure when it could not.
C12_OfflineStoredWhenOpened ==
    OfflineValidWake =>
        /\ Count("store") = 1
        /\ stores # <<>>
        /\ LastStore.reading = reading
        /\ LastStore.opened = StoreOpened
        /\ RowsMatchOpenedStores
        /\ IF StoreOpened
           THEN LastRowIs(LastStore.timestamp, reading)
           ELSE Logged("Failed to open data file for writing")
        /\ Logged("Stored locally: <t>C")
        /\ OfflineOutcome

\* C12 witness: asleep after a failed join, the valid reading the last row of the file
C12_Witness ==
    /\ pc = "asleep"
    /\ OfflineValidWake
    /\ StoreOpened
    /\ LastRowIs(LastStore.timestamp, reading)
    /\ Cardinality(Blinks(3, 50)) = 1

\* SensorInit has run in this wake and found no device
NoSensorWake == Events("sensorInit") # {} /\ ~SensorFound

\* C13, the state part: after no device was found the wake is on its way to sleep,
\* with the startup blink and five fast blinks and nothing else on the indicator,
\* and with no sensor read, no storeReading call, no join and no POST
C13_NoSensorState ==
    NoSensorWake =>
        /\ InSleepPath
        /\ Cardinality(Blinks(5, 50)) = 1
        /\ Count("led") = 2
        /\ Count("read") = 0
        /\ Count("store") = 0
        /\ Count("join") = 0
        /\ Count("post") = 0
        /\ pc = "asleep" => (timerArmed /\ trace[Len(trace)].ev = "deepSleep")

\* C13, the step part: SensorInit and every later step of such a wake leave the data file as it is
C13_NoSensorStep ==
    (pc = "sensorInit" \/ NoSensorWake) => dataFile' = dataFile

\* C13: a wake in which no sensor device is detected at SensorInit emits exactly
\* five fast blinks as its outcome code, appends no row to the data file, takes
\* no sensor read, and proceeds to sleep.
C13_NoSensorFiveBlinksThenSleep ==
    [](C13_NoSensorState) /\ [][C13_NoSensorStep]_vars

\* C13 witness: asleep after no sensor was found, rows of earlier wakes in the file
C13_Witness ==
    /\ pc = "asleep"
    /\ NoSensorWake
    /\ Cardinality(Blinks(5, 50)) = 1
    /\ Len(dataFile.lines) >= 2

\* the wake joined, read a valid value and had its POST answered with 200
SentWake ==
    /\ Joined
    /\ ReadDone
    /\ ~isnan(reading.tempC)
    /\ \E i \in Events("post") : trace[i].code = HTTP_OK
    /\ InSleepPath
\* the log received the line m
LoggedLine(m) ==
    \E i \in Events("log") : trace[i].line.text = m.text /\ trace[i].line.args = m.args

\* C14 as claimed: with the join succeeded, the read valid and the server answering
\* 200, one row is appended, the log receives "Sent <temperature>°C successfully",
\* and the indicator emits one blink as the outcome code.
C14_SentSuccessfullyLine ==
    SentWake =>
        /\ StoreOpened
        /\ LastRowIs(timestamp, reading)
        /\ LoggedLine(Msg("Sent <t>C successfully", <<String2(reading.tempC)>>))
        /\ Cardinality(Blinks(1, 100)) = 1

\* C14 as amended: in such a wake storeReading is called once and appends one row
\* when the data file could be opened (no row, and a logged failure, otherwise);
\* the log receives "Sent <temperature>°C (boot #<bootCount>)", with
\* " / <humidity>% RH" after the temperature when the reading has a humidity;
\* the indicator emits one blink as the outcome code and no error code.
C14_SentLineWithBootNumber ==
    SentWake =>
        /\ Count("store") = 1
        /\ RowsMatchOpenedStores
        /\ IF StoreOpened
           THEN LastRowIs(timestamp, reading)
           ELSE Logged("Failed to open data file for writing")
        /\ LoggedLine(SentMessage(reading.tempC, reading.humidity))
        /\ SentMessage(reading.tempC, reading.humidity).args[Len(SentMessage(reading.tempC, reading.humidity).args)]
             = bootCount
        /\ LogLines({"Sent <t>C successfully"}) = {}
        /\ Cardinality(LogLines(SentTexts)) = 1
        /\ Cardinality(Blinks(1, 100)) = 1
        /\ Blinks(3, 50) = {} /\ Blinks(5, 50) = {}

\* C14 witness: asleep after a stored and accepted reading of the sensor with humidity
C14_Witness ==
    /\ pc = "asleep"
    /\ SentWake
    /\ StoreOpened
    /\ ~isnan(reading.humidity)
    /\ Logged("Sent <t>C / <h>% RH (boot #<n>)")
    /\ Cardinality(Blinks(1, 100)) = 1

SendSucceeded == \E i \in Events("post") : trace[i].code = HTTP_OK
SendFailed == \E i \in Events("post") : trace[i].code # HTTP_OK
ReadInvalid == ReadDone /\ isnan(reading.tempC)
\* the indicator codes of the wake: which were shown, each at most once
StartupBlinkFirst ==
    pc # "setup" => (Len(trace) >= 2 /\ Blinks(1, 200) = {2} /\ trace[1].ev = "boot")
OnlyKnownCodes ==
    /\ Events("led") = Blinks(1, 200) \cup Blinks(2, 100) \cup Blinks(1, 100)
                           \cup Blinks(3, 50) \cup Blinks(5, 50)
    /\ Cardinality(Blinks(2, 100)) <= 1
    /\ Cardinality(Blinks(1, 100)) <= 1
    /\ Cardinality(Blinks(3, 50)) <= 1
    /\ Cardinality(Blinks(5, 50)) <= 1

\* C15 as claimed: one slow blink at Boot before anything else; when the wake is
\* over, two blinks exactly when the join succeeded, one blink exactly when the
\* send succeeded, three fast blinks exactly when the join or the send failed,
\* five fast blinks exactly when no device was found or the read was invalid.
C15_CodesMatchOutcomes ==
    /\ StartupBlinkFirst
    /\ pc = "asleep" =>
         /\ Blinks(2, 100) # {} <=> Joined
         /\ Blinks(1, 100) # {} <=> SendSucceeded
         /\ Blinks(3, 50) # {} <=> (JoinFailed \/ SendFailed)
         /\ Blinks(5, 50) # {} <=> (NoSensorWake \/ ReadInvalid)

\* C15 as amended: as claimed, except that five fast blinks are emitted exactly
\* when no device was found at init or the join succeeded and the read was
\* invalid; a wake whose join failed emits three fast blinks and no five, also
\* when its read was invalid.  No other code is emitted and none twice.
C15_CodesMatchOutcomesJoined ==
    /\ StartupBlinkFirst
    /\ OnlyKnownCodes
    /\ pc = "asleep" =>
         /\ Blinks(2, 100) # {} <=> Joined
         /\ Blinks(1, 100) # {} <=> SendSucceeded
         /\ Blinks(3, 50) # {} <=> (JoinFailed \/ SendFailed)
         /\ Blinks(5, 50) # {} <=> (NoSensorWake \/ (Joined /\ ReadInvalid))
         /\ (JoinFailed /\ ReadInvalid) => (Blinks(5, 50) = {} /\ SensorErrorLogged)

\* C15 witness: asleep after a failed join and an invalid read, three fast blinks shown
C15_Witness ==
    /\ pc = "asleep"
    /\ JoinFailed
    /\ ReadInvalid
    /\ Cardinality(Blinks(3, 50)) = 1
    /\ Blinks(5, 50) = {}

\* this wake has stamped a reading (the stamp is the one storeReading was given)
Stamped == Count("store") = 1 /\ stores # <<>>

\* C16 as claimed: the timestamp of a reading is the token boot-<bootCount>
\* exactly when timeSynced is false, and an ISO-8601 string when it is true.
C16_FallbackIffNeverSynced ==
    Stamped =>
        /\ LastStore.timestamp = BootToken(bootCount) <=> ~timeSynced
        /\ LastStore.timestamp = IsoTime <=> timeSynced

\* C16, the state part: timeSynced implies a readable clock; a fallback stamp is
\* boot-<bootCount> and is given only with timeSynced false; with timeSynced
\* true the stamp is an ISO-8601 string
C16_StampState ==
    /\ timeSynced => clockSet
    /\ Stamped =>
         /\ LastStore.timestamp \in {BootToken(bootCount), IsoTime}
         /\ LastStore.timestamp = BootToken(bootCount) => ~timeSynced
         /\ timeSynced => LastStore.timestamp = IsoTime

\* C16, the step part: the step that stamps a reading gives the fallback token
\* exactly when the clock cannot be read at that moment, whatever timeSynced
\* is; storeReading is given that stamp, also when the clock was set since
C16_StampStep ==
    /\ (pc = "stamp" /\ pc' = "persist") =>
          timestamp' = (IF clockSet THEN IsoTime ELSE BootToken(bootCount))
    /\ Len(stores') = Len(stores) + 1 =>
          stores'[Len(stores')].timestamp =
              (IF pc = "persist" THEN timestamp
               ELSE IF clockSet THEN IsoTime ELSE BootToken(bootCount))

\* C16 as amended: the timestamp is boot-<bootCount> exactly when the wall clock
\* cannot be read (getLocalTime fails), which happens only with timeSynced false;
\* with timeSynced true it is an ISO-8601 string; with timeSynced false it is
\* an ISO-8601 string as well once an SNTP answer has set the clock without
\* syncTime counting it.
C16_FallbackIffClockUnset ==
    [](C16_StampState) /\ [][C16_StampStep]_vars

\* C16 witness: a reading stamped with wall-clock time in a wake that logged
\* "NTP sync failed" and left timeSynced false
C16_Witness ==
    /\ Stamped
    /\ ~timeSynced
    /\ Logged("NTP sync failed")
    /\ LastStore.timestamp = IsoTime

\* C17 as claimed: every payload POSTed carries an ISO-8601 wall-clock timestamp;
\* in no wake, one whose time sync failed included, is a fallback token sent.
C17_PostedTimestampIsIso ==
    \A i \in Events("post") :
        /\ trace[i].payload.timestamp = IsoTime
        /\ trace[i].payload.timestamp.kind # "boot"

\* the join polls connectWiFi can make before it gives up
MaxJoinPolls == WIFI_TIMEOUT_MS \div WIFI_POLL_MS + 2

\* C18, the state part: when wifiMulti.run() is called the time waited is at
\* most one poll delay beyond the timeout, so that at most MaxJoinPolls calls
\* are made; inside the loop the interface is not associated; a failed call
\* has logged the timeout and left the interface unassociated; while the
\* wake runs after a successful call the interface is associated
C18_ConnectState ==
    /\ pc = "wifiPoll" =>
         /\ elapsed <= WIFI_TIMEOUT_MS + WIFI_POLL_MS
         /\ elapsed \div WIFI_POLL_MS + 1 <= MaxJoinPolls
    /\ pc \in {"wifiPoll", "wifiWait"} => wifi # "connected"
    /\ JoinFailed => (Logged("WiFi connection timed out") /\ wifi # "connected" /\ ~Joined)
    /\ (Joined /\ pc # "asleep") => (wifi = "connected" /\ ~Logged("WiFi connection timed out"))

\* C18, the step part: the loop is left with failure only after more than the
\* timeout has been waited, and with success only when associated; a turn
\* that stays in the loop waits the time run() took and one poll delay
C18_ConnectStep ==
    /\ pc = "wifiPoll" =>
          /\ pc' \in {"wifiWait", "timeSync"}
          /\ pc' = "timeSync" => wifi' = "connected"
          /\ pc' = "wifiWait" => elapsed' >= elapsed
    /\ pc = "wifiWait" =>
          /\ pc' \in {"wifiPoll", "offline"}
          /\ pc' = "offline" => (elapsed > WIFI_TIMEOUT_MS /\ wifi' # "connected")
          /\ pc' = "wifiPoll" => (elapsed <= WIFI_TIMEOUT_MS /\ elapsed' = elapsed + WIFI_POLL_MS)

\* C18: connectWiFi always returns; when association never succeeds it returns
\* failure and logs a timeout after a bounded number of polls one poll delay
\* apart, never before the join timeout has elapsed; it returns success only
\* when the interface is associated.
C18_ConnectReturns ==
    /\ [](C18_ConnectState)
    /\ [][C18_ConnectStep]_vars
    /\ (pc = "connect") ~> (pc \in {"offline", "timeSync"})

\* C18 witness: connectWiFi has just returned failure, the timeout logged
C18_Witness ==
    /\ pc = "offline"
    /\ JoinFailed
    /\ Logged("WiFi connection timed out")
    /\ wifi = "idle"

\* C19, the step part: a call of connectWiFi on an associated interface returns
\* success at once and changes neither the association, nor the log, nor what
\* the wake has output (no join attempt, no log line, no blink)
C19_ReconnectStep ==
    (connects' = connects + 1 /\ wifi = "connected") =>
        /\ pc' = "timeSync"
        /\ wifi' = wifi
        /\ trace' = trace
        /\ logFile' = logFile
        /\ elapsed' = elapsed

\* C19, the state part: however many calls followed the successful one, the wake
\* shows one join, one "Connecting" and one "connected" line and one two-blink code
C19_ReconnectState ==
    (connects >= 1 /\ Joined /\ pc \in {"connect", "timeSync"}) =>
        /\ wifi = "connected"
        /\ Count("join") = 1
        /\ Cardinality(LogLines({"Connecting to WiFi..."})) = 1
        /\ Cardinality(LogLines({"WiFi connected to: <ssid> (<ip>)"})) = 1
        /\ Cardinality(Blinks(2, 100)) = 1

\* C19: connectWiFi is idempotent on an associated interface: called when already
\* associated it returns success immediately, makes no join attempt, writes no
\* log line and emits no blinks, so any number of calls after a successful one
\* leave the association, the log and the indicator as after the first.
C19_ConnectIdempotent ==
    [](C19_ReconnectState) /\ [][C19_ReconnectStep]_vars

\* C19 witness: the last of several calls has returned, one join and one two-blink
\* code in the wake
C19_Witness ==
    /\ connects = MaxConnectCalls
    /\ pc = "timeSync"
    /\ wifi = "connected"
    /\ Count("join") = 1
    /\ Cardinality(Blinks(2, 100)) = 1

\* the last events of the wake are the sleep sequence, in order
SleepSequenceLast ==
    LET n == Len(trace)
    IN  /\ n >= 5
        /\ trace[n - 4].ev = "log" /\ trace[n - 4].line.text = "Sleeping for <s>s..."
        /\ trace[n - 3] = [ev |-> "flush"]
        /\ trace[n - 2] = [ev |-> "wifiOff"]
        /\ trace[n - 1] = [ev |-> "timer", seconds |-> READING_INTERVAL_SEC]
        /\ trace[n] = [ev |-> "deepSleep"]
\* the exit the wake took to goToSleep()
SleepPath ==
    IF NoSensorWake THEN "no sensor"
    ELSE IF JoinFailed THEN "join failed"
    ELSE IF ReadInvalid THEN "reading invalid"
    ELSE IF SendFailed THEN "send failed"
    ELSE IF SendSucceeded THEN "send succeeded"
    ELSE "none"

\* C20, the state part: asleep means the sleep sequence ran once, last and in
\* order, by one of the five exits, with the radio off and the timer armed for
\* the configured interval; not asleep means none of it has run
C20_SleepState ==
    /\ pc = "asleep" =>
         /\ SleepSequenceLast
         /\ SleepPath # "none"
         /\ Count("flush") = 1 /\ Count("wifiOff") = 1
         /\ Count("timer") = 1 /\ Count("deepSleep") = 1
         /\ wifi = "off"
         /\ timerArmed
    /\ pc # "asleep" =>
         /\ Count("wifiOff") = 0 /\ Count("timer") = 0 /\ Count("deepSleep") = 0
         /\ ~timerArmed
    /\ pc = "sleep" => SleepPath # "none"
    /\ pc = "powerDown" =>
         /\ Count("flush") = 1
         /\ trace[Len(trace)] = [ev |-> "flush"]
         /\ trace[Len(trace) - 1].ev = "log"
         /\ trace[Len(trace) - 1].line.text = "Sleeping for <s>s..."

\* C20, the step part: nothing of the wake runs after deep sleep is entered; the
\* next step is the timer wake, which starts setup() afresh
C20_SleepStep ==
    pc = "asleep" => (pc' = "setup" /\ trace' = <<>> /\ wifi' = "off")

\* C20: on every path to Sleep (sensor not found, join failed, reading invalid,
\* send failed, send succeeded) the sleep sequence runs in the same order:
\* console flushed, radio disconnected and turned off, wake timer armed for the
\* configured interval, deep sleep entered; deep sleep is never entered with the
\* radio on or with no timer armed, and no step of the cycle runs after it.
C20_SleepSequence ==
    [](C20_SleepState) /\ [][C20_SleepStep]_vars

\* C20 witness: asleep through the send-failed exit, the radio that was associated now off
C20_Witness ==
    /\ pc = "asleep"
    /\ SleepPath = "send failed"
    /\ Joined
    /\ wifi = "off"
    /\ timerArmed
    /\ SleepSequenceLast

\* the texts of the lines appended to the log file in this wake, in order
LogFileTexts == [i \in DOMAIN logFile |-> logFile[i].text]
NoNetworkActivity ==
    /\ Count("join") = 0
    /\ Count("syncTime") = 0
    /\ Count("post") = 0
    /\ LogLines({"Connecting to WiFi..."}) = {}

\* C21 as claimed: a wake in which no sensor device is detected makes no join
\* attempt, no time sync and no POST, and writes neither the data file nor the
\* log file between SensorInit and Sleep.
C21_NoSensorNoStorageActivity ==
    NoSensorWake =>
        /\ NoNetworkActivity
        /\ Count("store") = 0
        /\ logFile = <<>>

\* the lines of this wake whose open of the log file gave a file, in order
RECURSIVE WrittenLines(_)
WrittenLines(n) ==
    IF n = 0 THEN <<>>
    ELSE IF trace[n].ev = "log" /\ trace[n].opened
         THEN Append(WrittenLines(n - 1), trace[n].line)
         ELSE WrittenLines(n - 1)
\* the texts of the lines this wake has logged, in order
RECURSIVE LoggedTexts(_)
LoggedTexts(n) ==
    IF n = 0 THEN <<>>
    ELSE IF trace[n].ev = "log"
         THEN Append(LoggedTexts(n - 1), trace[n].line.text)
         ELSE LoggedTexts(n - 1)

\* C21, the state part as amended: no join attempt, no time sync, no POST and no
\* storeReading call; the wake logs the sensor-not-found error and, in
\* goToSleep, the "Sleeping" line, and nothing else, and the log file receives
\* each of the two whose open gave a file; with the mount failed it receives
\* nothing
C21_NoSensorState ==
    NoSensorWake =>
        /\ NoNetworkActivity
        /\ Count("store") = 0
        /\ Count("read") = 0
        /\ LoggedTexts(Len(trace)) =
             (IF pc \in {"powerDown", "asleep"}
              THEN <<NotFoundMessage(build).text, "Sleeping for <s>s...">>
              ELSE <<NotFoundMessage(build).text>>)
        /\ logFile = WrittenLines(Len(trace))
        /\ ~mounted => logFile = <<>>

\* C21, the step part: the steps of such a wake leave the data file as it is
C21_NoSensorStep ==
    NoSensorWake => dataFile' = dataFile

\* C21 as amended: such a wake performs no network activity and no write to the
\* data file, but it does write the log file whenever the file can be opened:
\* the error line at SensorInit and the "Sleeping" line at Sleep.
C21_NoSensorLogsOnly ==
    [](C21_NoSensorState) /\ [][C21_NoSensorStep]_vars

\* C21 witness: asleep after no sensor was found, both lines in the log file
C21_Witness ==
    /\ pc = "asleep"
    /\ NoSensorWake
    /\ mounted
    /\ LogFileTexts = <<NotFoundMessage(build).text, "Sleeping for <s>s...">>
    /\ NoNetworkActivity

\* the data rows of a data file
IsRow(l) == l.kind = "row"
RowCount(df) == Len(SelectSeq(df.lines, IsRow))

\* C22, the state part: in one wake there is at most one sensor read (one value
\* fetched, the one-wire sensor after its two conversions), one storeReading
\* call, one POST, one syncTime call and one connectWiFi outcome
C22_OncePerWake ==
    /\ Count("read") <= 1
    /\ Count("convert") = (IF ReadDone /\ ~UsesAHT20(build) THEN 2 ELSE 0)
    /\ Count("store") <= 1
    /\ Count("post") <= 1
    /\ Count("syncTime") <= 1
    /\ Count("join") <= 1
    /\ Cardinality(LogLines({"NTP sync failed", "Time synced: <iso>"})) <= 1
    /\ Cardinality(LogLines(SensorErrorTexts)) <= 1

\* C22, the step part: a step that adds rows to the data file adds one, and is
\* the first storeReading call of its wake
C22_OneRowStep ==
    RowCount(dataFile') > RowCount(dataFile) =>
        /\ RowCount(dataFile') = RowCount(dataFile) + 1
        /\ Count("store") = 0

\* C22: within one wake there is no retry of any operation: the sensor is read at
\* most once, at most one row is appended to the data file, at most one POST is
\* made and syncTime is invoked at most once, whatever the outcomes.
C22_NoRetryInWake ==
    [](C22_OncePerWake) /\ [][C22_OneRowStep]_vars

\* C22 witness: asleep after a wake whose time sync and POST both failed, each tried once
C22_Witness ==
    /\ pc = "asleep"
    /\ Logged("NTP sync failed")
    /\ SendFailed
    /\ Count("syncTime") = 1
    /\ Count("read") = 1
    /\ Count("store") = 1
    /\ Count("post") = 1

\* An event of the wake without what storage adds to it
Tag(ev, text, n, m) == [ev |-> ev, text |-> text, n |-> n, m |-> m]
TagOf(e) ==
    CASE e.ev = "led" -> Tag("led", "", e.times, e.delayMs)
      [] e.ev = "log" -> Tag("log", e.line.text, 0, 0)
      [] e.ev = "print" -> Tag("print", e.text, 0, 0)
      [] e.ev = "post" -> Tag("post", "", e.code, 0)
      [] e.ev = "timer" -> Tag("timer", "", e.seconds, 0)
      [] OTHER -> Tag(e.ev, "", 0, 0)
\* the storage steps and the lines they print or log
IsStorageEvent(e) ==
    \/ e.ev \in {"mount", "store"}
    \/ e.ev = "print" /\ e.text = "LittleFS mount failed"
    \/ e.ev = "log" /\ e.line.text = "Failed to open data file for writing"
IsControlEvent(e) == ~IsStorageEvent(e)
ControlEvents == SelectSeq(trace, IsControlEvent)
\* the sensor, network, send, indicator and sleep steps of the wake, in order
ControlTrace == [i \in DOMAIN ControlEvents |-> TagOf(ControlEvents[i])]

\* What a wake does when storage works, as a function of the answers of the
\* sensor, the network, the time servers and the server alone
LogTag(text) == Tag("log", text, 0, 0)
ExpectedBoot ==
    <<Tag("boot", "", 0, 0), Tag("led", "", 1, 200), Tag("print", "Wake #<n>", 0, 0),
      Tag("sensorInit", "", 0, 0)>>
ExpectedSleep ==
    <<LogTag("Sleeping for <s>s..."), Tag("flush", "", 0, 0), Tag("wifiOff", "", 0, 0),
      Tag("timer", "", READING_INTERVAL_SEC, 0), Tag("deepSleep", "", 0, 0)>>
ExpectedErrors ==
    LET errors == readSensors(build, raw).errors
    IN  [i \in DOMAIN errors |-> LogTag(errors[i].text)]
ExpectedRead ==
    (IF UsesAHT20(build) THEN <<>> ELSE <<Tag("convert", "", 0, 0), Tag("convert", "", 0, 0)>>)
    \o <<Tag("read", "", 0, 0)>> \o ExpectedErrors
ExpectedValid == ReadingValid(readSensors(build, raw).reading)
ExpectedSync ==
    IF ~SyncInvoked THEN <<>>
    ELSE <<Tag("syncTime", "", 0, 0), Tag("polled", "", 0, 0),
           LogTag(IF Logged("Time synced: <iso>") THEN "Time synced: <iso>" ELSE "NTP sync failed")>>
PostCode == IF Events("post") = {} THEN 0 ELSE trace[CHOOSE i \in Events("post") : TRUE].code
ExpectedSend ==
    <<Tag("print", "Temperature: <c>C / <f>F", 0, 0)>>
    \o (IF UsesAHT20(build) THEN <<Tag("print", "Humidity: <h>%", 0, 0)>> ELSE <<>>)
    \o <<Tag("post", "", PostCode, 0)>>
    \o (IF PostCode = HTTP_OK
        THEN <<LogTag(SentMessage(reading.tempC, reading.humidity).text), Tag("led", "", 1, 100)>>
        ELSE <<LogTag("Server error: "), Tag("led", "", 3, 50)>>)
ExpectedOffline ==
    <<LogTag("WiFi connection timed out"), LogTag("No WiFi - storing reading locally only")>>
    \o ExpectedRead
    \o (IF ExpectedValid THEN <<LogTag("Stored locally: <t>C")>> ELSE <<>>)
    \o <<Tag("led", "", 3, 50)>>
ExpectedOnline ==
    <<Tag("print", "", 0, 0), LogTag("WiFi connected to: <ssid> (<ip>)"), Tag("led", "", 2, 100)>>
    \o ExpectedSync \o ExpectedRead
    \o (IF ExpectedValid THEN ExpectedSend ELSE <<Tag("led", "", 5, 50)>>)
ExpectedCycle ==
    ExpectedBoot
    \o (IF ~SensorFound
        THEN <<LogTag(NotFoundMessage(build).text), Tag("led", "", 5, 50)>>
        ELSE (IF UsesAHT20(build) THEN <<LogTag("AHT20 sensor ready")>> ELSE <<>>)
             \o <<LogTag("Connecting to WiFi..."), Tag("join", "", 0, 0)>>
             \o (IF Joined THEN ExpectedOnline ELSE ExpectedOffline))
    \o ExpectedSleep

\* C23, the state part: a finished wake has made exactly the sensor, network,
\* send, indicator and sleep steps that the answers of the sensor, the network
\* and the server call for, whatever the mount and the opens did; a valid
\* reading of a joined wake has been POSTed; a failed data-file open is followed
\* by its error line; the log file holds the lines whose open gave a file and
\* misses the others; with the filesystem not mounted nothing reaches the log
\* file and no data-file open succeeds
C23_StorageState ==
    /\ pc = "asleep" => ControlTrace = ExpectedCycle
    /\ (pc = "asleep" /\ Joined /\ ExpectedValid) => Count("post") = 1
    /\ \A j \in Events("store") :
         ~trace[j].opened =>
             /\ Len(trace) > j
             /\ trace[j + 1].ev = "log"
             /\ trace[j + 1].line.text = "Failed to open data file for writing"
    /\ logFile = WrittenLines(Len(trace))
    /\ ~mounted => (logFile = <<>> /\ ~StoreOpened)

\* C23, the step part: a storeReading call whose open fails leaves the data file
\* as it is, without header and without row
C23_StorageStep ==
    (Len(stores') = Len(stores) + 1 /\ ~stores'[Len(stores')].opened) => dataFile' = dataFile

\* C23: storage errors never change the control flow of the wake: after a failed
\* mount, a failed log-file open or a failed data-file open the wake makes the
\* same sensor, network, send, indicator and sleep steps as with working
\* storage; a failed data-file open appends nothing and logs an error; a failed
\* log-file open is absorbed silently.
C23_StorageErrorsAbsorbed ==
    [](C23_StorageState) /\ [][C23_StorageStep]_vars

\* C23 witness: asleep after a wake whose data file did not open and whose log
\* file did not open for the error line, and whose valid reading was POSTed and
\* accepted all the same
C23_Witness ==
    /\ pc = "asleep"
    /\ mounted
    /\ Joined
    /\ Count("store") = 1
    /\ ~StoreOpened
    /\ \E i \in LogLines({"Failed to open data file for writing"}) : ~trace[i].opened
    /\ "Failed to open data file for writing" \notin {logFile[i].text : i \in DOMAIN logFile}
    /\ SendSucceeded
    /\ ControlTrace = ExpectedCycle

\* the wake appended a row and made a POST
StoredAndSent == StoreOpened /\ Events("post") # {} /\ dataFile.exists /\ Len(dataFile.lines) >= 2
LastRow == dataFile.lines[Len(dataFile.lines)]
PostedPayload == trace[CHOOSE i \in Events("post") : TRUE].payload
\* a CSV value in hundredths (tenths) and a payload value in 1/Scale are the same number
SameAsHundredths(csv, v) == csv * Scale = v * 100
SameAsTenths(csv, v) == csv * Scale = v * 10
\* the stamp was taken after the time sync of the wake, if there was one
StampedAfterSync == \A i \in SyncCalls : \A j \in Events("store") : i < j

\* C24 as claimed: in a wake that both stores and sends, the row and the payload
\* carry the same timestamp, the same temperature and, when present, the same
\* humidity; the timestamp is computed once, after any time sync.
C24_RowEqualsPayload ==
    StoredAndSent =>
        /\ LastRow.timestamp = PostedPayload.timestamp
        /\ SameAsHundredths(LastRow.temperature, PostedPayload.temperature)
        /\ ~isnan(reading.humidity) => SameAsTenths(LastRow.humidity, PostedPayload.humidity)
        /\ StampedAfterSync

\* C24 as amended: the row and the payload carry the same timestamp, computed
\* once after any time sync and not again when the clock changes between store
\* and send; the payload carries the temperature and the humidity as read, the
\* row carries the temperature rounded to two decimals and the humidity
\* rounded to one, so the two differ by up to half a unit of the last decimal.
C24_RowIsRoundedPayload ==
    StoredAndSent =>
        /\ LastRow.timestamp = PostedPayload.timestamp
        /\ PostedPayload.timestamp = timestamp
        /\ LastStore.timestamp = timestamp
        /\ StampedAfterSync
        /\ PostedPayload.temperature = reading.tempC
        /\ LastRow.temperature = String2(PostedPayload.temperature)
        /\ 2 * (LastRow.temperature * Scale - PostedPayload.temperature * 100) <= Scale
        /\ 2 * (PostedPayload.temperature * 100 - LastRow.temperature * Scale) <= Scale
        /\ IF isnan(reading.humidity)
           THEN "humidity" \notin DOMAIN PostedPayload
           ELSE /\ PostedPayload.humidity = reading.humidity
                /\ LastRow.humidity = String1(PostedPayload.humidity)

\* C24 witness: a row of 22.56 and a payload of 22.5625, both stamped boot-<n>
\* although the clock was set between the store and the send
C24_Witness ==
    /\ StoredAndSent
    /\ PostedPayload.temperature = 361
    /\ LastRow.temperature = 2256
    /\ clockSet
    /\ PostedPayload.timestamp = BootToken(bootCount)
    /\ LastRow.timestamp = BootToken(bootCount)

\* the outcome codes of the wake: one blink, three fast blinks, five fast blinks
OutcomeCodes == Blinks(1, 100) \cup Blinks(3, 50) \cup Blinks(5, 50)
\* the place of the one outcome code, when there is one
OutcomeAt == CHOOSE i \in OutcomeCodes : TRUE

\* C25: every wake emits exactly one outcome code (one blink, three fast blinks
\* or five fast blinks), after the startup blink and after every store and send
\* of the wake, and immediately before the sleep sequence; no wake reaches
\* Sleep with none or with two.
C25_OneOutcomeCode ==
    /\ ~InSleepPath => OutcomeCodes = {}
    /\ InSleepPath =>
         /\ Cardinality(OutcomeCodes) = 1
         /\ \A i \in Blinks(1, 200) : i < OutcomeAt
         /\ \A i \in Events("store") \cup Events("post") \cup Events("read") : i < OutcomeAt
    /\ pc = "sleep" => OutcomeAt = Len(trace)
    /\ pc = "asleep" =>
         /\ SleepSequenceLast
         /\ OutcomeAt = Len(trace) - 5

\* C25 witness: asleep after a joined wake that stored and sent, its one outcome
\* code the three fast blinks of the refused POST
C25_Witness ==
    /\ pc = "asleep"
    /\ StoreOpened
    /\ SendFailed
    /\ OutcomeCodes = Blinks(3, 50)
    /\ Cardinality(OutcomeCodes) = 1
    /\ Cardinality(Blinks(2, 100)) = 1

=============================================================================
